---------------------------- MODULE Spec2Model ----------------------------
(***************************************************************************)
(* Load placement on a transmission network: the DC power flow             *)
(* (dc_power_flow.py), the placement loop and the ranking policy           *)
(* (load_testing.py), and their PYPOWER counterparts                       *)
(* (pypower/load_testing_pypower.py, pypower/power_flow_pypower.py,        *)
(* pypower/main_pypower.py), main.py with its unit-commitment step         *)
(* (unit_commitment.py), and the exhaustive AC search (AILoadOpt).         *)
(*                                                                         *)
(* Python floats are modelled as exact rationals [n, d] in lowest terms    *)
(* with d > 0; float('inf') is the rational 1/0.                           *)
(***************************************************************************)
EXTENDS Integers, Sequences, FiniteSets, TLC

VARIABLES
    path,          \* "dc" (main.py / load_testing.py) or "pypower" (main_pypower.py)
    pc,            \* position of the program
    buses,         \* original_buses, a list of [id, type, Pd, Qd]; ppc['bus']
    branches,      \* list of [from, to, x, rate, status]; ppc['branch']
    generators,    \* list of [bus, Pg, status, Pmax]; ppc['gen'] as [bus, Pmax, Pmin]
    new_load_mw,   \* the incremental load (MW)
    new_load_mvar, \* the incremental load (MVAr)
    test_buses,    \* the candidate bus ids, in the order given
    i,             \* index of the next candidate of the placement loop
    base_case,     \* result of the base case, once computed
    test_results,  \* the dict test_results, as a list of [bus_id, res] in insertion order
    recommendation,\* what recommend_load_placement returned
    solver,        \* PYPOWER: what the power flow answered, per case it was given
    tolerance,     \* the tolerance_percent given to check_line_violations
    uc             \* main.py: the unit-commitment step and what it left in uc_results

\* The inputs of a run other than the bus data.
parameters == <<path, branches, generators, new_load_mw, new_load_mvar, test_buses,
                tolerance>>

\* The inputs of a run.
inputs == <<buses, parameters>>

vars == <<inputs, pc, i, base_case, test_results, recommendation, solver, uc>>

-----------------------------------------------------------------------------
(* Exact rational arithmetic for the float computations.                   *)

Abs(x) == IF x < 0 THEN -x ELSE x

RECURSIVE GCD(_, _)
GCD(a, b) == IF b = 0 THEN a ELSE GCD(b, a % b)

Sign(x) == IF x < 0 THEN -1 ELSE IF x > 0 THEN 1 ELSE 0

\* n/d in lowest terms with a positive denominator. The IEEE specials are the
\* rationals with d = 0: +inf = 1/0, -inf = -1/0, nan = 0/0.
Rat(n, d) ==
    IF d = 0 THEN [n |-> Sign(n), d |-> 0]
    ELSE LET g == GCD(Abs(n), Abs(d))
             s == IF d < 0 THEN -1 ELSE 1
         IN  [n |-> (s * n) \div g, d |-> (s * d) \div g]

RInt(k) == [n |-> k, d |-> 1]
RInf == [n |-> 1, d |-> 0]
RAdd(a, b) == Rat(a.n * b.d + b.n * a.d, a.d * b.d)
RSub(a, b) == Rat(a.n * b.d - b.n * a.d, a.d * b.d)
RMul(a, b) == Rat(a.n * b.n, a.d * b.d)
RDiv(a, b) == Rat(a.n * b.d, a.d * b.n)
RAbs(a) == [n |-> Abs(a.n), d |-> a.d]
RLt(a, b) == a.n * b.d < b.n * a.d
RIsNan(a) == a.n = 0 /\ a.d = 0
RNan == [n |-> 0, d |-> 0]
RGt(a, b) == RLt(b, a)

\* Python's max() of a non-empty list: the first of the largest elements.
RECURSIVE RMaxFrom(_, _, _)
RMaxFrom(s, k, best) ==
    IF k > Len(s) THEN best
    ELSE RMaxFrom(s, k + 1, IF RGt(s[k], best) THEN s[k] ELSE best)

RMax(s) == RMaxFrom(s, 2, s[1])

-----------------------------------------------------------------------------
(* dc_power_flow.py                                                        *)

base_mva == 100

\* The dict bus_indices: bus id -> position in the bus list; a later bus with
\* the same id overwrites an earlier one.
bus_indices(bs) ==
    [id \in {bs[k].id : k \in DOMAIN bs} |->
        CHOOSE k \in DOMAIN bs :
            bs[k].id = id /\ \A m \in DOMAIN bs : bs[m].id = id => m <= k]

ZeroMatrix(n) == [r \in 1..n |-> [c \in 1..n |-> RInt(0)]]

\* The updates of B without the last one, B[to_idx, from_idx] -= b.
AddBranchOneSided(B, f, t, b) ==
    LET B1 == [B  EXCEPT ![f][f] = RAdd(@, b)]
        B2 == [B1 EXCEPT ![t][t] = RAdd(@, b)]
    IN  [B2 EXCEPT ![f][t] = RSub(@, b)]

\* One branch's four updates of B, in the order of the code.
AddBranch(B, f, t, b) ==
    LET B1 == [B  EXCEPT ![f][f] = RAdd(@, b)]
        B2 == [B1 EXCEPT ![t][t] = RAdd(@, b)]
        B3 == [B2 EXCEPT ![f][t] = RSub(@, b)]
    IN  [B3 EXCEPT ![t][f] = RSub(@, b)]

\* A loop that adds every branch with a reactance, in service or not.
RECURSIVE FillBIgnoringStatus(_, _, _, _)
FillBIgnoringStatus(B, brs, k, idx) ==
    IF k > Len(brs) THEN [error |-> "none", B |-> B]
    ELSE LET br == brs[k] IN
         IF br.x # 0
         THEN IF br.from \notin DOMAIN idx \/ br.to \notin DOMAIN idx
              THEN [error |-> "KeyError", B |-> B]
              ELSE FillBIgnoringStatus(
                       AddBranch(B, idx[br.from], idx[br.to], RDiv(RInt(1), RInt(br.x))),
                       brs, k + 1, idx)
         ELSE FillBIgnoringStatus(B, brs, k + 1, idx)

\* The loop of build_b_matrix over the branches; bus_indices[...] raises
\* KeyError for a bus id that is not in the bus list.
RECURSIVE FillB(_, _, _, _)
FillB(B, brs, k, idx) ==
    IF k > Len(brs) THEN [error |-> "none", B |-> B]
    ELSE LET br == brs[k] IN
         IF br.status = 1 /\ br.x # 0
         THEN IF br.from \notin DOMAIN idx \/ br.to \notin DOMAIN idx
              THEN [error |-> "KeyError", B |-> B]
              ELSE FillB(AddBranch(B, idx[br.from], idx[br.to], RDiv(RInt(1), RInt(br.x))),
                         brs, k + 1, idx)
         ELSE FillB(B, brs, k + 1, idx)

build_b_matrix(bs, brs) ==
    LET idx == bus_indices(bs)
        r == FillB(ZeroMatrix(Len(bs)), brs, 1, idx)
    IN  [error |-> r.error, B |-> r.B, bus_indices |-> idx]

\* Determinant by expansion along the first row.
Minor(M, j) ==
    [r \in 1..(Len(M) - 1) |->
        [c \in 1..(Len(M) - 1) |-> M[r + 1][IF c < j THEN c ELSE c + 1]]]

RECURSIVE Det(_)
RECURSIVE Cofactors(_, _)
Cofactors(M, j) ==
    IF j > Len(M) THEN RInt(0)
    ELSE RAdd(RMul(RInt(IF j % 2 = 1 THEN 1 ELSE -1), RMul(M[1][j], Det(Minor(M, j)))),
              Cofactors(M, j + 1))

Det(M) ==
    IF Len(M) = 0 THEN RInt(1)
    ELSE IF Len(M) = 1 THEN M[1][1]
    ELSE Cofactors(M, 1)

\* scipy's spsolve(A, b): the solution of A x = b (Cramer's rule); for an
\* exactly singular A it warns and returns a vector of nan.
spsolve(A, b) ==
    LET m == Len(A)
        D == Det(A)
        Col(k) == [r \in 1..m |-> [c \in 1..m |-> IF c = k THEN b[r] ELSE A[r][c]]]
    IN  IF D.n = 0 THEN [k \in 1..m |-> RNan]
        ELSE [k \in 1..m |-> RDiv(Det(Col(k)), D)]

\* The injection vector P: generation of the in-service generators whose bus
\* is known, minus the load, over base_mva.
RECURSIVE GenAt(_, _, _, _)
GenAt(gens, k, idx, pos) ==
    IF k > Len(gens) THEN RInt(0)
    ELSE RAdd(IF gens[k].status = 1 /\ gens[k].bus \in DOMAIN idx
                 /\ idx[gens[k].bus] = pos
              THEN RInt(gens[k].Pg) ELSE RInt(0),
              GenAt(gens, k + 1, idx, pos))

\* An injection vector that leaves the generation out.
InjectionLoadOnly(bs, gens, idx, mva) ==
    [p \in 1..Len(bs) |-> RDiv(RSub(RInt(0), RInt(bs[p].Pd)), RInt(mva))]

Injection(bs, gens, idx, mva) ==
    [p \in 1..Len(bs) |-> RDiv(RSub(GenAt(gens, 1, idx, p), RInt(bs[p].Pd)), RInt(mva))]

\* The positions of the list that satisfy the mask, in order.
RECURSIVE Masked(_, _, _)
Masked(n, k, slack) ==
    IF k > n THEN <<>>
    ELSE (IF k = slack THEN <<>> ELSE <<k>>) \o Masked(n, k + 1, slack)

\* Flow records whose loading keeps the sign of the flow.
RECURSIVE FlowsSignedLoading(_, _, _, _, _)
FlowsSignedLoading(brs, k, idx, theta, mva) ==
    IF k > Len(brs) THEN <<>>
    ELSE LET br == brs[k] IN
         IF br.status = 1 /\ br.x # 0
         THEN LET flow == RMul(RDiv(RSub(theta[idx[br.from]], theta[idx[br.to]]),
                                    RInt(br.x)), RInt(mva))
              IN  <<[from_bus |-> br.from, to_bus |-> br.to, flow_mw |-> flow,
                     limit_mw |-> br.rate,
                     loading_percent |->
                         IF br.rate > 0
                         THEN RMul(RDiv(flow, RInt(br.rate)), RInt(100))
                         ELSE RInt(0)]>>
                  \o FlowsSignedLoading(brs, k + 1, idx, theta, mva)
         ELSE FlowsSignedLoading(brs, k + 1, idx, theta, mva)

\* The flow record of each in-service branch with non-zero reactance.
RECURSIVE Flows(_, _, _, _, _)
Flows(brs, k, idx, theta, mva) ==
    IF k > Len(brs) THEN <<>>
    ELSE LET br == brs[k] IN
         IF br.status = 1 /\ br.x # 0
         THEN LET flow == RMul(RDiv(RSub(theta[idx[br.from]], theta[idx[br.to]]),
                                    RInt(br.x)), RInt(mva))
              IN  <<[from_bus |-> br.from, to_bus |-> br.to, flow_mw |-> flow,
                     limit_mw |-> br.rate,
                     loading_percent |->
                         IF br.rate > 0
                         THEN RMul(RDiv(RAbs(flow), RInt(br.rate)), RInt(100))
                         ELSE RInt(0)]>>
                  \o Flows(brs, k + 1, idx, theta, mva)
         ELSE Flows(brs, k + 1, idx, theta, mva)

NoResult == [error |-> "none", theta |-> <<>>, flows |-> <<>>]

\* A power flow that solves B theta = P with the slack row and column left in.
run_dc_power_flow_unreduced(bs, brs, gens, mva) ==
    LET built == build_b_matrix(bs, brs)
        idx == built.bus_indices
        P == Injection(bs, gens, idx, mva)
        slack_buses == {k \in 1..Len(bs) : bs[k].type = 3}
    IN  IF built.error # "none" THEN [NoResult EXCEPT !.error = built.error]
        ELSE IF slack_buses = {} THEN [NoResult EXCEPT !.error = "ValueError"]
        ELSE LET theta == spsolve(built.B, P)
             IN  [error |-> "none", theta |-> theta,
                  flows |-> Flows(brs, 1, idx, theta, mva)]

\* A power flow that takes the last bus of type slack as the reference.
run_dc_power_flow_last_slack(bs, brs, gens, mva) ==
    LET built == build_b_matrix(bs, brs)
        idx == built.bus_indices
        n == Len(bs)
        P == Injection(bs, gens, idx, mva)
        slack_buses == {k \in 1..n : bs[k].type = 3}
    IN  IF built.error # "none" THEN [NoResult EXCEPT !.error = built.error]
        ELSE IF slack_buses = {} THEN [NoResult EXCEPT !.error = "ValueError"]
        ELSE LET slack_idx == CHOOSE k \in slack_buses : \A m \in slack_buses : k >= m
                 mask == Masked(n, 1, slack_idx)
                 B_reduced == [r \in 1..Len(mask) |->
                                 [c \in 1..Len(mask) |-> built.B[mask[r]][mask[c]]]]
                 P_reduced == [r \in 1..Len(mask) |-> P[mask[r]]]
                 theta_reduced == spsolve(B_reduced, P_reduced)
                 theta == [p \in 1..n |->
                             IF p = slack_idx THEN RInt(0)
                             ELSE theta_reduced[CHOOSE r \in 1..Len(mask) : mask[r] = p]]
             IN  [error |-> "none", theta |-> theta,
                  flows |-> Flows(brs, 1, idx, theta, mva)]

\* run_dc_power_flow: the reference is slack_buses[0], the first bus of type 3.
run_dc_power_flow(bs, brs, gens, mva) ==
    LET built == build_b_matrix(bs, brs)
        idx == built.bus_indices
        n == Len(bs)
        P == Injection(bs, gens, idx, mva)
        slack_buses == {k \in 1..n : bs[k].type = 3}
    IN  IF built.error # "none" THEN [NoResult EXCEPT !.error = built.error]
        ELSE IF slack_buses = {} THEN [NoResult EXCEPT !.error = "ValueError"]
        ELSE LET slack_idx == CHOOSE k \in slack_buses : \A m \in slack_buses : k <= m
                 mask == Masked(n, 1, slack_idx)
                 B_reduced == [r \in 1..Len(mask) |->
                                 [c \in 1..Len(mask) |-> built.B[mask[r]][mask[c]]]]
                 P_reduced == [r \in 1..Len(mask) |-> P[mask[r]]]
                 theta_reduced == spsolve(B_reduced, P_reduced)
                 theta == [p \in 1..n |->
                             IF p = slack_idx THEN RInt(0)
                             ELSE theta_reduced[CHOOSE r \in 1..Len(mask) : mask[r] = p]]
             IN  [error |-> "none", theta |-> theta,
                  flows |-> Flows(brs, 1, idx, theta, mva)]

DEFAULT_TOLERANCE == 100

\* A check that also returns the records loaded exactly to the threshold.
RECURSIVE check_line_violations_at_least(_, _)
check_line_violations_at_least(flows, tolerance_percent) ==
    IF flows = <<>> THEN <<>>
    ELSE (IF ~RLt(Head(flows).loading_percent, tolerance_percent)
          THEN <<Head(flows)>> ELSE <<>>)
         \o check_line_violations_at_least(Tail(flows), tolerance_percent)

\* check_line_violations(flows, tolerance_percent): tolerance as a rational.
RECURSIVE check_line_violations(_, _)
check_line_violations(flows, tolerance_percent) ==
    IF flows = <<>> THEN <<>>
    ELSE (IF RGt(Head(flows).loading_percent, tolerance_percent)
          THEN <<Head(flows)>> ELSE <<>>)
         \o check_line_violations(Tail(flows), tolerance_percent)

\* Arguments whose loads were used up by the call.
arguments_with_loads_cleared(bs, brs, gens) ==
    <<[k \in DOMAIN bs |-> [bs[k] EXCEPT !.Pd = 0]], brs, gens>>

\* The buses, branches and generators given to run_dc_power_flow, as the call
\* leaves them: it reads them into arrays of its own (P, B, theta, flows) and
\* assigns to none of their elements.
arguments_after_run_dc_power_flow(bs, brs, gens) == <<bs, brs, gens>>

-----------------------------------------------------------------------------
(* grid_data.py, load_testing.py: the DC placement loop and its ranking.   *)

\* A copy in which the new load replaces the load of the bus.
add_new_load_replacing(bus_data, bus_id, mw, mvar) ==
    LET hits == {k \in DOMAIN bus_data : bus_data[k].id = bus_id}
    IN  IF hits = {} THEN bus_data
        ELSE LET k == CHOOSE h \in hits : \A m \in hits : h <= m
             IN  [bus_data EXCEPT ![k].Pd = mw, ![k].Qd = mvar]

\* A copy in which a load for a bus id that is not in the list goes to the
\* last bus.
add_new_load_or_last(bus_data, bus_id, mw, mvar) ==
    LET hits == {k \in DOMAIN bus_data : bus_data[k].id = bus_id}
        k == IF hits = {} THEN Len(bus_data)
             ELSE CHOOSE h \in hits : \A m \in hits : h <= m
    IN  [bus_data EXCEPT ![k].Pd = @ + mw, ![k].Qd = @ + mvar]

\* add_new_load: a copy of the bus list with the load added to the first bus
\* whose id is bus_id; the copy equals the input when no bus has that id.
add_new_load(bus_data, bus_id, mw, mvar) ==
    LET hits == {k \in DOMAIN bus_data : bus_data[k].id = bus_id}
    IN  IF hits = {} THEN bus_data
        ELSE LET k == CHOOSE h \in hits : \A m \in hits : h <= m
             IN  [bus_data EXCEPT ![k].Pd = @ + mw, ![k].Qd = @ + mvar]

\* The list the caller holds, with the load written into its own rows.
bus_data_written_in_place(bus_data, bus_id, mw, mvar) ==
    add_new_load(bus_data, bus_id, mw, mvar)

\* The list given to add_new_load, as the call leaves it: the rows are copied
\* (bus.copy()) before the loop writes, so the writes go to the copies.
bus_data_after_add_new_load(bus_data, bus_id, mw, mvar) == bus_data

RECURSIVE SumPd(_, _)
SumPd(bs, k) == IF k > Len(bs) THEN 0 ELSE bs[k].Pd + SumPd(bs, k + 1)

\* sum(gen[7] for gen in generators if gen[8] == 1): by the generator layout
\* [bus, Pg, Qg, Qmax, Qmin, Vg, mBase, status, Pmax, ...], gen[7] is the
\* status and gen[8] is Pmax.
RECURSIVE total_gen_capacity(_, _)
total_gen_capacity(gens, k) ==
    IF k > Len(gens) THEN 0
    ELSE (IF gens[k].Pmax = 1 THEN gens[k].status ELSE 0) + total_gen_capacity(gens, k + 1)

gen_capacity_exceeded(modified_buses, gens) ==
    SumPd(modified_buses, 1) > total_gen_capacity(gens, 1)

\* Records whose change is the new loading itself.
LoadingChangesFromNothing(new_flows, base_flows) ==
    [k \in 1..Len(new_flows) |->
        [from_bus |-> new_flows[k].from_bus, to_bus |-> new_flows[k].to_bus,
         base_loading |-> base_flows[k].loading_percent,
         new_loading |-> new_flows[k].loading_percent,
         change |-> new_flows[k].loading_percent]]

\* The per-branch records of loading_changes; base_flows[k] must exist.
LoadingChanges(new_flows, base_flows) ==
    [k \in 1..Len(new_flows) |->
        [from_bus |-> new_flows[k].from_bus, to_bus |-> new_flows[k].to_bus,
         base_loading |-> base_flows[k].loading_percent,
         new_loading |-> new_flows[k].loading_percent,
         change |-> RSub(new_flows[k].loading_percent, base_flows[k].loading_percent)]]

Changes(loading_changes) == [k \in 1..Len(loading_changes) |-> loading_changes[k].change]
NewLoadings(loading_changes) ==
    [k \in 1..Len(loading_changes) |-> loading_changes[k].new_loading]

\* sorted(loading_changes, key=lambda x: abs(x['change']), reverse=True)[0]:
\* the first record among those of largest |change|.
MostAffected(loading_changes) ==
    LET top == RMax([k \in 1..Len(loading_changes) |-> RAbs(loading_changes[k].change)])
        k == CHOOSE h \in 1..Len(loading_changes) :
                /\ RAbs(loading_changes[h].change) = top
                /\ \A m \in 1..(h - 1) : RAbs(loading_changes[m].change) # top
    IN  loading_changes[k]

\* 'max_loading_change': max([c['change'] for c in loading_changes]).
max_loading_change(loading_changes) == RMax(Changes(loading_changes))

\* The body of the loop of run_load_placement_test for one candidate:
\* [error, res], res the entry stored in test_results[bus_id].
CandidateResult(bs, brs, gens, base_flows, bus_id, mw, mvar) ==
    LET modified_buses == add_new_load(bs, bus_id, mw, mvar)
        exceeded == gen_capacity_exceeded(modified_buses, gens)
        pf_results == run_dc_power_flow(modified_buses, brs, gens, base_mva)
        violations == check_line_violations(pf_results.flows, RInt(DEFAULT_TOLERANCE))
        loading_changes == LoadingChanges(pf_results.flows, base_flows)
        none == [gen_capacity_exceeded |-> exceeded]
    IN  IF pf_results.error # "none" THEN [error |-> pf_results.error, res |-> none]
        ELSE IF Len(pf_results.flows) > Len(base_flows)
             THEN [error |-> "IndexError", res |-> none]
        ELSE IF loading_changes = <<>> THEN [error |-> "ValueError", res |-> none]
        ELSE [error |-> "none",
              res |-> [violations |-> violations,
                       loading_changes |-> loading_changes,
                       max_loading_change |-> max_loading_change(loading_changes),
                       most_affected_line |-> MostAffected(loading_changes),
                       gen_capacity_exceeded |-> exceeded]]

\* A dict as the list of its [bus_id, res] items in insertion order:
\* d[key] = value keeps the position of a key that is already there.
DictKeys(d) == {d[k].bus_id : k \in DOMAIN d}
DictPut(d, key, value) ==
    IF key \in DictKeys(d)
    THEN [k \in DOMAIN d |-> IF d[k].bus_id = key THEN [bus_id |-> key, res |-> value]
                                                ELSE d[k]]
    ELSE Append(d, [bus_id |-> key, res |-> value])
DictGet(d, key) == d[CHOOSE k \in DOMAIN d : d[k].bus_id = key].res

\* sorted(evaluations, key=lambda x: x['score']): stable, ascending.
RECURSIVE InsertByScore(_, _)
InsertByScore(sorted, e) ==
    IF sorted = <<>> THEN <<e>>
    ELSE IF RLt(e.score, Head(sorted).score) THEN <<e>> \o sorted
    ELSE <<Head(sorted)>> \o InsertByScore(Tail(sorted), e)

RECURSIVE SortByScore(_)
SortByScore(evaluations) ==
    IF evaluations = <<>> THEN <<>>
    ELSE InsertByScore(SortByScore(SubSeq(evaluations, 1, Len(evaluations) - 1)),
                       evaluations[Len(evaluations)])

VIOLATION_SCORE == 1000

\* One entry of evaluations (DC path).
Score(has_violations, has_gen_capacity_issues, max_loading, change) ==
    IF has_violations \/ has_gen_capacity_issues THEN RInt(VIOLATION_SCORE)
    ELSE RAdd(max_loading, RMul(RAbs(change), RInt(2)))

Evaluation(item) ==
    LET results == item.res
        has_violations == Len(results.violations) > 0
        has_gen_capacity_issues == results.gen_capacity_exceeded
        max_loading == RMax(NewLoadings(results.loading_changes))
    IN  [bus_id |-> item.bus_id,
         has_violations |-> has_violations,
         has_gen_capacity_issues |-> has_gen_capacity_issues,
         max_line_loading |-> max_loading,
         max_loading_change |-> results.max_loading_change,
         most_affected_line |-> <<results.most_affected_line.from_bus,
                                  results.most_affected_line.to_bus>>,
         score |-> Score(has_violations, has_gen_capacity_issues, max_loading,
                         results.max_loading_change)]

NoBus == [kind |-> "none", bus |-> 0]
Bus(b) == [kind |-> "bus", bus |-> b]

\* The recommendation made from the ranking (DC path).
Recommend(ranked_buses) ==
    IF ranked_buses[1].has_violations THEN NoBus ELSE Bus(ranked_buses[1].bus_id)

recommend_load_placement(test_cases) ==
    LET evaluations == [k \in 1..Len(test_cases) |-> Evaluation(test_cases[k])]
        ranked_buses == SortByScore(evaluations)
    IN  IF \E k \in 1..Len(test_cases) : test_cases[k].res.loading_changes = <<>>
        THEN [error |-> "ValueError", ranked_buses |-> <<>>, recommendation |-> NoBus]
        ELSE IF ranked_buses = <<>>
        THEN [error |-> "IndexError", ranked_buses |-> <<>>, recommendation |-> NoBus]
        ELSE [error |-> "none", ranked_buses |-> ranked_buses,
              recommendation |-> Recommend(ranked_buses)]

-----------------------------------------------------------------------------
(* pypower/grid_data_pypower.py, pypower/power_flow_pypower.py,            *)
(* pypower/load_testing_pypower.py: the same loop over PYPOWER.  The power *)
(* flow itself (rundcpf, runpf) is PYPOWER's: a call returns (results,     *)
(* success) or raises; results are the case with the solved columns PF     *)
(* (per branch) and PG (per generator).                                    *)

\* add_load_to_bus: a deep copy with the load added to row bus_id - 1 of
\* ppc['bus']; numpy takes a negative index from the end and raises
\* IndexError outside [-n, n).
add_load_to_bus(bus, bus_id, mw, mvar) ==
    LET n == Len(bus)
        bus_idx == bus_id - 1
        row == IF bus_idx >= 0 THEN bus_idx + 1 ELSE n + bus_idx + 1
    IN  IF bus_idx >= n \/ bus_idx < -n THEN [error |-> "IndexError", bus |-> bus]
        ELSE [error |-> "none",
              bus |-> [bus EXCEPT ![row].Pd = @ + mw, ![row].Qd = @ + mvar]]

\* ppc['bus'] of the case given to add_load_to_bus, as the call leaves it: the
\* writes go to the deep copy.
ppc_after_add_load_to_bus(bus, bus_id, mw, mvar) == bus

Loading(flow, rate) == RMul(RDiv(RAbs(RInt(flow)), RInt(rate)), RInt(100))

\* check_line_violations of power_flow_pypower.py.
RECURSIVE check_line_violations_pypower(_, _, _, _)
check_line_violations_pypower(branch, PF, k, tolerance_percent) ==
    IF k > Len(PF) THEN <<>>
    ELSE (IF branch[k].rate > 0 /\ RGt(Loading(PF[k], branch[k].rate), tolerance_percent)
          THEN <<[from_bus |-> branch[k].from + 1, to_bus |-> branch[k].to + 1,
                  flow_mw |-> RInt(PF[k]), limit_mw |-> branch[k].rate,
                  loading_percent |-> Loading(PF[k], branch[k].rate)]>>
          ELSE <<>>)
         \o check_line_violations_pypower(branch, PF, k + 1, tolerance_percent)

GEN_TOLERANCE_MW == 1

\* check_generation_limits: an entry for an output above Pmax + tolerance and
\* one for an output below Pmin - tolerance.
RECURSIVE check_generation_limits(_, _, _)
check_generation_limits(gen, PG, k) ==
    IF k > Len(PG) THEN <<>>
    ELSE (IF PG[k] > gen[k].Pmax + GEN_TOLERANCE_MW
          THEN <<[bus |-> gen[k].bus + 1, output_mw |-> PG[k], limit_mw |-> gen[k].Pmax,
                  type |-> "maximum"]>>
          ELSE <<>>)
         \o (IF PG[k] < gen[k].Pmin - GEN_TOLERANCE_MW
             THEN <<[bus |-> gen[k].bus + 1, output_mw |-> PG[k], limit_mw |-> gen[k].Pmin,
                     type |-> "minimum"]>>
             ELSE <<>>)
         \o check_generation_limits(gen, PG, k + 1)

get_branch_loading(branch, PF) ==
    [k \in 1..Len(PF) |->
        [from_bus |-> branch[k].from + 1, to_bus |-> branch[k].to + 1,
         flow_mw |-> RInt(PF[k]), limit_mw |-> branch[k].rate,
         loading_percent |-> IF branch[k].rate > 0 THEN Loading(PF[k], branch[k].rate)
                                                   ELSE RInt(0)]]

\* The entry of a candidate whose power flow failed: these two keys only.
NotConverged(message) == [converged |-> FALSE, message |-> message]

\* The try block of the loop of test_new_load_placement, given what the power
\* flow did on the modified case: the entry stored in test_results[bus_id].
CandidateResultPypower(branch, gen, base_branch_loading, outcome) ==
    IF outcome.kind = "raise" THEN NotConverged("Error during power flow")
    ELSE IF outcome.kind = "nonconv"
    THEN NotConverged("Power flow did not converge with new load")
    ELSE LET branch_loading == get_branch_loading(branch, outcome.PF)
             loading_changes == LoadingChanges(branch_loading, base_branch_loading)
         IN  IF loading_changes = <<>> THEN NotConverged("Error during power flow")
             ELSE LET most_impacted == MostAffected(loading_changes) IN
                  [converged |-> TRUE,
                   line_violations |->
                       check_line_violations_pypower(branch, outcome.PF, 1, RInt(DEFAULT_TOLERANCE)),
                   gen_violations |-> check_generation_limits(gen, outcome.PG, 1),
                   loading_changes |-> loading_changes,
                   most_impacted_line |-> most_impacted,
                   max_loading_change |-> most_impacted.change,
                   max_loading |-> RMax(NewLoadings(loading_changes))]

MAX_LOADING_THRESHOLD == 80
THRESHOLD_SCORE == 500

\* The score of a convergent candidate (PYPOWER path).
ScorePypower(has_line_violations, has_gen_violations, max_loading, change, threshold) ==
    IF has_line_violations \/ has_gen_violations THEN RInt(VIOLATION_SCORE)
    ELSE IF RGt(max_loading, threshold) THEN RAdd(RInt(THRESHOLD_SCORE), max_loading)
    ELSE RAdd(max_loading, RMul(RAbs(change), RInt(2)))

\* A ranking that gives a non-convergent candidate the penalty of a violation.
NonConvergentScoreAsPenalty == RInt(VIOLATION_SCORE)

\* The score of a candidate whose power flow did not converge.
NonConvergentScore == RInf

\* One entry of evaluations (PYPOWER path); the entry of a non-convergent
\* candidate has the keys bus_id, feasible, reason and score only.
EvaluationPypower(item, threshold) ==
    LET results == item.res
        has_line_violations == Len(results.line_violations) > 0
        has_gen_violations == Len(results.gen_violations) > 0
    IN  IF ~results.converged
        THEN [bus_id |-> item.bus_id, feasible |-> FALSE, reason |-> results.message,
              score |-> NonConvergentScore]
        ELSE [bus_id |-> item.bus_id,
              feasible |-> /\ ~(has_line_violations \/ has_gen_violations)
                           /\ ~RGt(results.max_loading, threshold),
              reason |-> IF has_line_violations /\ has_gen_violations
                         THEN "Line and generator violations"
                         ELSE IF has_line_violations THEN "Line violations"
                         ELSE IF has_gen_violations THEN "Generator violations"
                         ELSE IF RGt(results.max_loading, threshold)
                         THEN "Line loading exceeds threshold"
                         ELSE "Feasible location",
              max_line_loading |-> results.max_loading,
              max_loading_change |-> results.max_loading_change,
              most_impacted_line |-> <<results.most_impacted_line.from_bus,
                                       results.most_impacted_line.to_bus>>,
              score |-> ScorePypower(has_line_violations, has_gen_violations,
                                     results.max_loading, results.max_loading_change,
                                     threshold)]

\* The entries of the ranking that are feasible, in ranking order.
RECURSIVE FeasibleBuses(_)
FeasibleBuses(ranked_buses) ==
    IF ranked_buses = <<>> THEN <<>>
    ELSE (IF Head(ranked_buses).feasible THEN <<Head(ranked_buses)>> ELSE <<>>)
         \o FeasibleBuses(Tail(ranked_buses))

RecommendPypower(ranked_buses) ==
    LET feasible_buses == FeasibleBuses(ranked_buses)
    IN  IF feasible_buses # <<>> THEN Bus(feasible_buses[1].bus_id) ELSE NoBus

recommend_load_placement_pypower(test_cases, threshold) ==
    LET evaluations == [k \in 1..Len(test_cases) |->
                           EvaluationPypower(test_cases[k], threshold)]
        ranked_buses == SortByScore(evaluations)
    IN  [error |-> "none", ranked_buses |-> ranked_buses,
         recommendation |-> RecommendPypower(ranked_buses),
         feasible_options |-> Len(FeasibleBuses(ranked_buses))]

\* The loop of main() that prints the ranking reads bus['max_line_loading'] of
\* every entry: KeyError for an entry that has none.
PrintRankingRaises(ranked_buses) ==
    \E k \in 1..Len(ranked_buses) : "max_line_loading" \notin DOMAIN ranked_buses[k]

-----------------------------------------------------------------------------
(* unit_commitment.py.  The solvers are PuLP's: building a solver or        *)
(* prob.solve raises, or prob.solve returns one of PuLP's status codes.     *)

\* --skip-uc and --solver as main() got them, "" standing for a name that is
\* not given (None); nothing attempted yet.
NoUc ==
    [skip_uc |-> FALSE, solver_name |-> "", next |-> 1, attempts |-> <<>>,
     status |-> -1, solver_message |-> "", has_values |-> FALSE,
     uc_results |-> [status |-> "None"], step2 |-> "not run"]

\* The solvers tried when none is named, in this order.
SolverPreference == <<"CBC", "GLPK", "CPLEX", "GUROBI", "SCIP">>

KnownSolvers == {SolverPreference[k] : k \in DOMAIN SolverPreference}

solver_options(solver_name) ==
    IF solver_name # "" THEN <<solver_name>> ELSE SolverPreference

\* The status codes of PuLP and their names in plp.LpStatus.
LpStatusCodes == {1, 0, -1, -2, -3}
LpStatus(status) ==
    CASE status = 1 -> "Optimal"
      [] status = 0 -> "Not Solved"
      [] status = -1 -> "Infeasible"
      [] status = -2 -> "Unbounded"
      [] status = -3 -> "Undefined"

\* What an attempt with a known solver can do: raise, or return a status;
\* the variables have values after an optimal solve, and may have none
\* otherwise.
AttemptOutcomes ==
    {[kind |-> "raised", status |-> 0, has_values |-> FALSE]}
    \cup {[kind |-> "returned", status |-> 1, has_values |-> TRUE]}
    \cup {[kind |-> "returned", status |-> st, has_values |-> v] :
             st \in LpStatusCodes \ {1}, v \in BOOLEAN}

\* The result of solve_simplified_dispatch.
solve_simplified_dispatch ==
    [status |-> "Optimal (Simplified)", solver |-> "Simplified Economic Dispatch",
     objective |-> "number"]

\* The end of solve_unit_commitment, once the loop over the solvers is over.
UcResults(u) ==
    IF u.status = -1 THEN solve_simplified_dispatch
    ELSE [status |-> LpStatus(u.status), solver |-> u.solver_message,
          objective |-> IF u.has_values THEN "number" ELSE "None"]

-----------------------------------------------------------------------------
(* The networks and inputs the DC program is run on.                       *)

MaxCandidates == 2

PdValues == {0, 6}
RateValues == {0, 1, 8}
LoadSizes == {-6, 0, 1}
CandidateIds == {1, 2, 3, 4}

BusRow(id, type, pd) == [id |-> id, type |-> type, Pd |-> pd, Qd |-> 0]
BranchRow(f, t, x, rate) == [from |-> f, to |-> t, x |-> x, rate |-> rate, status |-> 1]
GenRow(bus, pg, status, pmax) == [bus |-> bus, Pg |-> pg, status |-> status, Pmax |-> pmax]

\* A bus list in which no bus has type 3.
NoSlackBusLists == {<<BusRow(1, 1, 0), BusRow(2, 1, 0), BusRow(3, 1, 6)>>}

\* Three buses, bus 1 the slack bus; and the list without a slack bus.
BusLists == {<<BusRow(1, 3, 0), BusRow(2, 1, p2), BusRow(3, 1, p3)>> :
                p2 \in PdValues, p3 \in PdValues}
            \cup NoSlackBusLists

\* A chain 1-2-3 and a triangle, every branch with the same rating.
BranchLists ==
    {<<BranchRow(1, 2, 1, r), BranchRow(2, 3, 1, r)>> : r \in RateValues}
    \cup {<<BranchRow(1, 2, 1, r), BranchRow(2, 3, 1, r), BranchRow(1, 3, 2, r)>> :
             r \in RateValues}

GeneratorLists ==
    {<<GenRow(1, 0, 1, 10)>>,
     <<GenRow(1, 0, 1, 1)>>,
     <<GenRow(1, 0, 1, 10), GenRow(3, 6, 1, 1)>>,
     <<GenRow(1, 0, 1, 1), GenRow(3, 6, 0, 10)>>}

SeqsUpTo(S, n) == UNION {[1..m -> S] : m \in 0..n}

NoBase == [flows |-> <<>>, violations |-> <<>>]
NoRecommendation == [error |-> "none", ranked_buses |-> <<>>, recommendation |-> NoBus]

InitDC ==
    /\ path = "dc"
    /\ pc = "start"
    /\ buses \in BusLists
    /\ branches \in BranchLists
    /\ generators \in GeneratorLists
    /\ new_load_mw \in LoadSizes
    /\ new_load_mvar = 0
    /\ test_buses \in SeqsUpTo(CandidateIds, MaxCandidates)
    /\ i = 1
    /\ base_case = NoBase
    /\ test_results = <<>>
    /\ recommendation = NoRecommendation
    /\ solver = {}
    /\ uc = NoUc
    /\ tolerance = RInt(DEFAULT_TOLERANCE)

\* A base case whose error is swallowed: the loop starts with no base flows.
DcBaseCaseAbsorbing ==
    /\ path = "dc" /\ pc = "start"
    /\ LET r == run_dc_power_flow(buses, branches, generators, base_mva) IN
         /\ base_case' = [flows |-> r.flows,
                          violations |-> check_line_violations(r.flows, RInt(DEFAULT_TOLERANCE))]
         /\ pc' = "loop"
    /\ UNCHANGED <<inputs, uc, i, test_results, recommendation, solver>>

\* run_load_placement_test, up to the loop: the base case.
DcBaseCase ==
    /\ path = "dc" /\ pc = "start"
    /\ LET r == run_dc_power_flow(buses, branches, generators, base_mva) IN
         IF r.error # "none"
         THEN pc' = "base_raised" /\ UNCHANGED base_case
         ELSE /\ base_case' = [flows |-> r.flows,
                               violations |-> check_line_violations(r.flows, RInt(DEFAULT_TOLERANCE))]
              /\ pc' = "loop"
    /\ UNCHANGED <<inputs, uc, i, test_results, recommendation, solver>>

\* The bus data with the load added at the first k candidates of the list.
RECURSIVE LoadedUpTo(_)
LoadedUpTo(k) ==
    IF k = 0 THEN buses
    ELSE add_new_load(LoadedUpTo(k - 1), test_buses[k], new_load_mw, new_load_mvar)

\* A pass that adds the load on top of the loads of the earlier candidates.
DcLoopStepOnTopOfEarlier ==
    /\ path = "dc" /\ pc = "loop" /\ i <= Len(test_buses)
    /\ LET c == CandidateResult(LoadedUpTo(i - 1), branches, generators, base_case.flows,
                                test_buses[i], new_load_mw, new_load_mvar) IN
         IF c.error # "none"
         THEN pc' = "loop_raised" /\ UNCHANGED <<i, test_results>>
         ELSE /\ test_results' = DictPut(test_results, test_buses[i], c.res)
              /\ i' = i + 1
              /\ pc' = pc
    /\ UNCHANGED <<inputs, uc, base_case, recommendation, solver>>

\* One pass of the loop over test_buses.
DcLoopStep ==
    /\ path = "dc" /\ pc = "loop" /\ i <= Len(test_buses)
    /\ LET c == CandidateResult(buses, branches, generators, base_case.flows,
                                test_buses[i], new_load_mw, new_load_mvar) IN
         IF c.error # "none"
         THEN pc' = "loop_raised" /\ UNCHANGED <<i, test_results>>
         ELSE /\ test_results' = DictPut(test_results, test_buses[i], c.res)
              /\ i' = i + 1
              /\ pc' = pc
    /\ buses' = bus_data_after_add_new_load(buses, test_buses[i], new_load_mw, new_load_mvar)
    /\ UNCHANGED <<parameters, uc, base_case, recommendation, solver>>

\* The loop is over: run_load_placement_test returns.
DcReturn ==
    /\ path = "dc" /\ pc = "loop" /\ i > Len(test_buses)
    /\ pc' = "tested"
    /\ UNCHANGED <<inputs, uc, i, base_case, test_results, recommendation, solver>>

\* A recommendation that names a bus only when a dispatch is at hand.
DcRecommendWithDispatch ==
    /\ path = "dc" /\ pc = "tested"
    /\ recommendation' =
           [recommend_load_placement(test_results) EXCEPT
               !.recommendation = IF uc.step2 = "completed" THEN @ ELSE NoBus]
    /\ pc' = IF recommendation'.error # "none" THEN "recommend_raised" ELSE "recommended"
    /\ UNCHANGED <<inputs, uc, i, base_case, test_results, solver>>

\* recommend_load_placement(test_results).
DcRecommend ==
    /\ path = "dc" /\ pc = "tested"
    /\ recommendation' = recommend_load_placement(test_results)
    /\ pc' = IF recommendation'.error # "none" THEN "recommend_raised" ELSE "recommended"
    /\ UNCHANGED <<inputs, uc, i, base_case, test_results, solver>>

\* main() prints the recommendation and the ranking: every key it reads is in
\* every entry.
DcPrint ==
    /\ path = "dc" /\ pc = "recommended"
    /\ pc' = "printed"
    /\ UNCHANGED <<inputs, uc, i, base_case, test_results, recommendation, solver>>

Init == InitDC
Next == DcBaseCase \/ DcLoopStep \/ DcReturn \/ DcRecommend \/ DcPrint
Spec == Init /\ [][Next]_vars

-----------------------------------------------------------------------------
(* main.py from its first step: the base-case power flow, the unit         *)
(* commitment, then the placement test and the ranking above.              *)

MainSolverNames == {"", "GLPK", "XPRESS"}
MainCandidateIds == {2, 3}
MainLoadSizes == {1}

\* The command lines: --skip-uc, or a solver name (or none).
MainArguments ==
    {[NoUc EXCEPT !.skip_uc = TRUE]}
    \cup {[NoUc EXCEPT !.solver_name = n] : n \in MainSolverNames}

InitMain ==
    /\ path = "dc"
    /\ pc = "main"
    /\ buses \in {b \in BusLists : b[3].Pd = 6}
    /\ branches \in {b \in BranchLists : b[1].rate = 8}
    /\ generators \in {g \in GeneratorLists : Len(g) = 1 /\ g[1].Pmax = 10}
    /\ new_load_mw \in MainLoadSizes
    /\ new_load_mvar = 0
    /\ test_buses \in SeqsUpTo(MainCandidateIds, MaxCandidates)
    /\ i = 1
    /\ base_case = NoBase
    /\ test_results = <<>>
    /\ recommendation = NoRecommendation
    /\ solver = {}
    /\ uc \in MainArguments
    /\ tolerance = RInt(DEFAULT_TOLERANCE)

\* Step 1 of main(): the base-case power flow; main returns 1 when it raises.
MainPowerFlow ==
    /\ path = "dc" /\ pc = "main"
    /\ pc' = IF run_dc_power_flow(buses, branches, generators, base_mva).error # "none"
             THEN "main_returned_1" ELSE "step2"
    /\ UNCHANGED <<inputs, uc, i, base_case, test_results, recommendation, solver>>

\* Step 2 of main(): skipped, or solve_unit_commitment is called and builds
\* its problem and its list of solvers.
MainUnitCommitment ==
    /\ path = "dc" /\ pc = "step2"
    /\ IF uc.skip_uc
       THEN uc' = [uc EXCEPT !.step2 = "skipped"] /\ pc' = "start"
       ELSE uc' = uc /\ pc' = "uc_loop"
    /\ UNCHANGED <<inputs, i, base_case, test_results, recommendation, solver>>

\* One pass of the loop over solver_options: an unknown name is skipped, an
\* exception is caught, a return ends the loop.
UcAttempt ==
    /\ path = "dc" /\ pc = "uc_loop"
    /\ LET options == solver_options(uc.solver_name)
           name == options[uc.next]
           over == IF uc.next + 1 > Len(options) THEN "uc_after_loop" ELSE "uc_loop"
       IN  IF Len(options) = 0 THEN uc' = uc /\ pc' = "uc_after_loop"
           ELSE IF name \notin KnownSolvers
           THEN /\ uc' = [uc EXCEPT !.next = @ + 1,
                                    !.attempts = Append(@, <<name, "skipped">>)]
                /\ pc' = over
           ELSE \E o \in AttemptOutcomes :
                  IF o.kind = "raised"
                  THEN /\ uc' = [uc EXCEPT !.next = @ + 1,
                                           !.attempts = Append(@, <<name, "raised">>)]
                       /\ pc' = over
                  ELSE /\ uc' = [uc EXCEPT !.attempts = Append(@, <<name, "returned">>),
                                           !.status = o.status,
                                           !.has_values = o.has_values,
                                           !.solver_message = name]
                       /\ pc' = "uc_after_loop"
    /\ UNCHANGED <<inputs, i, base_case, test_results, recommendation, solver>>

\* solve_unit_commitment after its loop: the fallback, or the results read
\* from the problem.
UcReturn ==
    /\ path = "dc" /\ pc = "uc_after_loop"
    /\ uc' = [uc EXCEPT !.uc_results = UcResults(uc)]
    /\ pc' = "uc_returned"
    /\ UNCHANGED <<inputs, i, base_case, test_results, recommendation, solver>>

\* Step 2 of main() after the call: the prints, of which the one of the
\* objective with :.2f raises on None; the except clause goes on to step 3.
MainAfterUnitCommitment ==
    /\ path = "dc" /\ pc = "uc_returned"
    /\ uc' = [uc EXCEPT !.step2 = IF uc.uc_results.objective = "None" THEN "failed"
                                                                     ELSE "completed"]
    /\ pc' = "start"
    /\ UNCHANGED <<inputs, i, base_case, test_results, recommendation, solver>>

NextMain ==
    \/ MainPowerFlow \/ MainUnitCommitment \/ UcAttempt \/ UcReturn
    \/ MainAfterUnitCommitment \/ Next
SpecMain == InitMain /\ [][NextMain]_vars

-----------------------------------------------------------------------------
(* The PYPOWER program: main_pypower.py.                                   *)

FlowProfiles == {<<0, 50, 300>>, <<50, 90, 300>>, <<120, 50, 300>>, <<700, 50, 300>>}
GenOutputs == {<<50>>, <<120>>}
LoadSizesPypower == {50}
CandidateIdsPypower == {0, 1, 2, 3}

\* What a call of the power flow can do.
SolverOutcomes ==
    {[kind |-> "raise"], [kind |-> "nonconv"]}
    \cup {[kind |-> "ok", PF |-> f, PG |-> g] : f \in FlowProfiles, g \in GenOutputs}

\* The case the loop works on: two buses, three branches (one unrated), one
\* generator.  get_case118 names case118, which grid_data_pypower.py does not
\* import; the loop is modelled on a loaded case, as get_case9 returns one.
PpBus == <<BusRow(1, 3, 0), BusRow(2, 1, 90)>>
PpBranch == <<[from |-> 0, to |-> 1, rate |-> 100], [from |-> 0, to |-> 1, rate |-> 100],
              [from |-> 1, to |-> 0, rate |-> 0]>>
PpGen == <<[bus |-> 0, Pmax |-> 100, Pmin |-> 10]>>

\* The power flow is a function of the case: a case met before gets the
\* answer it got before.
Answers(bus) ==
    IF \E a \in solver : a.input = bus
    THEN {a.outcome : a \in {b \in solver : b.input = bus}}
    ELSE SolverOutcomes

InitPP ==
    /\ path = "pypower"
    /\ pc = "start"
    /\ buses = PpBus
    /\ branches = PpBranch
    /\ generators = PpGen
    /\ new_load_mw \in LoadSizesPypower
    /\ new_load_mvar = 0
    /\ test_buses \in SeqsUpTo(CandidateIdsPypower, MaxCandidates)
    /\ i = 1
    /\ base_case = NoBase
    /\ test_results = <<>>
    /\ recommendation = NoRecommendation
    /\ solver = {}
    /\ uc = NoUc
    /\ tolerance = RInt(DEFAULT_TOLERANCE)

\* test_new_load_placement, up to the loop: the base case, which must converge.
PpBaseCase ==
    /\ path = "pypower" /\ pc = "start"
    /\ \E o \in Answers(buses) :
         /\ solver' = solver \cup {[input |-> buses, outcome |-> o]}
         /\ IF o.kind # "ok"
            THEN pc' = "base_raised" /\ UNCHANGED base_case
            ELSE /\ base_case' =
                        [line_violations |->
                             check_line_violations_pypower(branches, o.PF, 1,
                                                           RInt(DEFAULT_TOLERANCE)),
                         gen_violations |-> check_generation_limits(generators, o.PG, 1),
                         branch_loading |-> get_branch_loading(branches, o.PF)]
                 /\ pc' = "loop"
    /\ UNCHANGED <<inputs, uc, i, test_results, recommendation>>

\* A loop without the except clause and the convergence test: a power flow
\* that fails ends the loop.
PpLoopStepAborting ==
    /\ path = "pypower" /\ pc = "loop" /\ i <= Len(test_buses)
    /\ LET modified == add_load_to_bus(buses, test_buses[i], new_load_mw, new_load_mvar) IN
         IF modified.error # "none"
         THEN pc' = "loop_raised" /\ UNCHANGED <<i, test_results, solver>>
         ELSE \E o \in Answers(modified.bus) :
                /\ solver' = solver \cup {[input |-> modified.bus, outcome |-> o]}
                /\ IF o.kind # "ok"
                   THEN pc' = "loop_raised" /\ UNCHANGED <<i, test_results>>
                   ELSE /\ test_results' =
                              DictPut(test_results, test_buses[i],
                                      CandidateResultPypower(branches, generators,
                                                             base_case.branch_loading, o))
                        /\ i' = i + 1
                        /\ pc' = pc
    /\ buses' = ppc_after_add_load_to_bus(buses, test_buses[i], new_load_mw, new_load_mvar)
    /\ UNCHANGED <<parameters, uc, base_case, recommendation>>

\* One pass of the loop over test_buses: add_load_to_bus, outside the try,
\* then the try block.
PpLoopStep ==
    /\ path = "pypower" /\ pc = "loop" /\ i <= Len(test_buses)
    /\ LET modified == add_load_to_bus(buses, test_buses[i], new_load_mw, new_load_mvar) IN
         IF modified.error # "none"
         THEN pc' = "loop_raised" /\ UNCHANGED <<i, test_results, solver>>
         ELSE \E o \in Answers(modified.bus) :
                /\ solver' = solver \cup {[input |-> modified.bus, outcome |-> o]}
                /\ test_results' =
                       DictPut(test_results, test_buses[i],
                               CandidateResultPypower(branches, generators,
                                                      base_case.branch_loading, o))
                /\ i' = i + 1
                /\ pc' = pc
    /\ buses' = ppc_after_add_load_to_bus(buses, test_buses[i], new_load_mw, new_load_mvar)
    /\ UNCHANGED <<parameters, uc, base_case, recommendation>>

PpReturn ==
    /\ path = "pypower" /\ pc = "loop" /\ i > Len(test_buses)
    /\ pc' = "tested"
    /\ UNCHANGED <<inputs, uc, i, base_case, test_results, recommendation, solver>>

\* recommend_load_placement(test_results), with the default threshold.
PpRecommend ==
    /\ path = "pypower" /\ pc = "tested"
    /\ recommendation' =
           recommend_load_placement_pypower(test_results, RInt(MAX_LOADING_THRESHOLD))
    /\ pc' = "recommended"
    /\ UNCHANGED <<inputs, uc, i, base_case, test_results, solver>>

\* main() prints the recommendation and then each entry of the ranking.
PpPrint ==
    /\ path = "pypower" /\ pc = "recommended"
    /\ pc' = IF PrintRankingRaises(recommendation.ranked_buses) THEN "print_raised"
                                                                 ELSE "printed"
    /\ UNCHANGED <<inputs, uc, i, base_case, test_results, recommendation, solver>>

NextPP == PpBaseCase \/ PpLoopStep \/ PpReturn \/ PpRecommend \/ PpPrint
SpecPP == InitPP /\ [][NextPP]_vars

-----------------------------------------------------------------------------
(* check_line_violations called on the flow records of a power flow with a *)
(* threshold of the caller's choice.                                       *)

ToleranceValues == {-1, 0, 100}

InitViol ==
    /\ path = "violations"
    /\ pc = "start"
    /\ buses \in BusLists
    /\ branches \in BranchLists
    /\ generators \in GeneratorLists
    /\ new_load_mw = 0
    /\ new_load_mvar = 0
    /\ test_buses = <<>>
    /\ i = 1
    /\ base_case = NoBase
    /\ test_results = <<>>
    /\ recommendation = NoRecommendation
    /\ solver = {}
    /\ uc = NoUc
    /\ tolerance \in {RInt(t) : t \in ToleranceValues}

ViolPowerFlow ==
    /\ path = "violations" /\ pc = "start"
    /\ LET r == run_dc_power_flow(buses, branches, generators, base_mva) IN
         /\ base_case' = [flows |-> r.flows, violations |-> <<>>]
         /\ pc' = IF r.error # "none" THEN "base_raised" ELSE "solved"
    /\ UNCHANGED <<inputs, uc, i, test_results, recommendation, solver>>

ViolCheck ==
    /\ path = "violations" /\ pc = "solved"
    /\ base_case' = [base_case EXCEPT
                        !.violations = check_line_violations(base_case.flows, tolerance)]
    /\ pc' = "checked"
    /\ UNCHANGED <<inputs, uc, i, test_results, recommendation, solver>>

NextViol == ViolPowerFlow \/ ViolCheck
SpecViol == InitViol /\ [][NextViol]_vars

-----------------------------------------------------------------------------
(* The functions of dc_power_flow.py and grid_data.py called on their own, *)
(* on networks that need not be well formed: no slack bus, an island, a    *)
(* reference to a bus that is not in the bus list, parallel branches, a    *)
(* branch from a bus to itself, skipped branches, unrated branches.        *)

PfBusTypes == {<<3, 1>>, <<1, 3>>, <<1, 1>>, <<3, 3>>}
PfSlackLoads == {0, 5}

\* Three buses; the slack bus, if any, is bus 1 or bus 2, or both are.
PfBusLists ==
    {<<[id |-> 1, type |-> t[1], Pd |-> p1, Qd |-> 0],
       [id |-> 2, type |-> t[2], Pd |-> p2, Qd |-> 3],
       [id |-> 3, type |-> 1, Pd |-> 6, Qd |-> 0]>> :
        t \in PfBusTypes, p1 \in PfSlackLoads, p2 \in PdValues}

\* A chain, a triangle, bus 3 on its own, buses 2 and 3 away from bus 1.
PfBaseBranchLists ==
    {<<BranchRow(1, 2, 1, 8), BranchRow(2, 3, 1, 8)>>,
     <<BranchRow(1, 2, 1, 8), BranchRow(2, 3, 1, 8), BranchRow(1, 3, 2, 8)>>,
     <<BranchRow(1, 2, 1, 8)>>,
     <<BranchRow(2, 3, 1, 8)>>}

\* One more branch: parallel and unrated, parallel with a negative rating,
\* from a bus to itself, of zero reactance, out of service, to a bus that is
\* not in the list (in service, and out of service).
PfExtraBranches ==
    {BranchRow(2, 1, 1, 0),
     BranchRow(3, 2, 1, -1),
     BranchRow(2, 2, 1, 8),
     BranchRow(1, 3, 0, 8),
     [BranchRow(1, 3, 1, 8) EXCEPT !.status = 0],
     BranchRow(1, 4, 1, 8),
     [BranchRow(1, 4, 1, 8) EXCEPT !.status = 0]}

PfBranchLists ==
    PfBaseBranchLists
    \cup {<<BranchRow(1, 2, 1, 8), BranchRow(2, 1, 2, 8), BranchRow(2, 2, 1, 8),
             BranchRow(2, 3, 1, 8)>>}
    \cup {<<e>> \o b : e \in PfExtraBranches, b \in PfBaseBranchLists}
    \cup {b \o <<e>> : e \in PfExtraBranches, b \in PfBaseBranchLists}

\* A generator at the first bus; a second one at bus 3, in service or not, or
\* at a bus that is not in the list.
PfGeneratorLists ==
    {<<GenRow(1, 0, 1, 10)>>,
     <<GenRow(1, 0, 1, 10), GenRow(3, 9, 1, 10)>>,
     <<GenRow(1, 0, 1, 10), GenRow(3, 9, 0, 10)>>,
     <<GenRow(1, 0, 1, 10), GenRow(4, 9, 1, 10)>>}

PfToleranceValues == {75, 100}
PfLoadSizes == {1}
PfReactiveLoadSizes == {2}

\* Solved branch flows of a PYPOWER case, of either sign.
PfSolvedFlows == {<<-50, 50, 300>>, <<120, -90, -300>>}

\* Nothing called yet.
PfNothing ==
    [op |-> "none", error |-> "none", B |-> <<>>, theta |-> <<>>, flows |-> <<>>,
     violations |-> <<>>, bus_id |-> 0, modified |-> <<>>, again |-> <<>>]

InitPF ==
    /\ path = "functions"
    /\ pc = "start"
    /\ buses \in PfBusLists
    /\ branches \in PfBranchLists
    /\ generators \in PfGeneratorLists
    /\ new_load_mw \in PfLoadSizes
    /\ new_load_mvar \in PfReactiveLoadSizes
    /\ test_buses = <<>>
    /\ i = 1
    /\ base_case = PfNothing
    /\ test_results = <<>>
    /\ recommendation = NoRecommendation
    /\ solver = {}
    /\ uc = NoUc
    /\ tolerance \in {RInt(t) : t \in PfToleranceValues}

\* build_b_matrix(buses, branches).
PfBuild ==
    /\ path = "functions" /\ pc = "start"
    /\ LET r == build_b_matrix(buses, branches) IN
         /\ base_case' = [PfNothing EXCEPT !.op = "build_b_matrix", !.error = r.error,
                                           !.B = IF r.error = "none" THEN r.B ELSE <<>>]
         /\ pc' = IF r.error # "none" THEN "raised" ELSE "built"
    /\ UNCHANGED <<inputs, uc, i, test_results, recommendation, solver>>

\* run_dc_power_flow(buses, branches, generators, base_mva).
PfSolve ==
    /\ path = "functions" /\ pc = "start"
    /\ LET r == run_dc_power_flow(buses, branches, generators, base_mva) IN
         /\ base_case' = [PfNothing EXCEPT !.op = "run_dc_power_flow", !.error = r.error,
                                           !.theta = r.theta, !.flows = r.flows]
         /\ pc' = IF r.error # "none" THEN "raised" ELSE "solved"
    /\ LET after == arguments_after_run_dc_power_flow(buses, branches, generators) IN
         buses' = after[1] /\ branches' = after[2] /\ generators' = after[3]
    /\ UNCHANGED <<path, new_load_mw, new_load_mvar, test_buses, tolerance>>
    /\ UNCHANGED <<uc, i, test_results, recommendation, solver>>

\* run_dc_power_flow called a second time on the same lists.
PfSolveAgain ==
    /\ path = "functions" /\ pc = "solved"
    /\ LET r == run_dc_power_flow(buses, branches, generators, base_mva) IN
         /\ base_case' = [base_case EXCEPT !.op = "run_dc_power_flow twice",
                                           !.error = r.error, !.again = r.flows]
         /\ pc' = IF r.error # "none" THEN "raised" ELSE "solved_twice"
    /\ LET after == arguments_after_run_dc_power_flow(buses, branches, generators) IN
         buses' = after[1] /\ branches' = after[2] /\ generators' = after[3]
    /\ UNCHANGED <<path, new_load_mw, new_load_mvar, test_buses, tolerance>>
    /\ UNCHANGED <<uc, i, test_results, recommendation, solver>>

\* check_line_violations(results['flows'], tolerance).
PfCheck ==
    /\ path = "functions" /\ pc = "solved"
    /\ base_case' = [base_case EXCEPT
                        !.op = "check_line_violations",
                        !.violations = check_line_violations(base_case.flows, tolerance)]
    /\ pc' = "checked"
    /\ UNCHANGED <<inputs, uc, i, test_results, recommendation, solver>>

\* add_new_load(buses, bus_id, new_load_mw, new_load_mvar).
PfAddLoad ==
    /\ path = "functions" /\ pc = "start"
    /\ \E b \in CandidateIds :
         base_case' = [PfNothing EXCEPT
                          !.op = "add_new_load", !.bus_id = b,
                          !.modified = add_new_load(buses, b, new_load_mw, new_load_mvar)]
    /\ pc' = "loaded"
    /\ UNCHANGED <<inputs, uc, i, test_results, recommendation, solver>>

\* add_load_to_bus(ppc, bus_id, new_load_mw, new_load_mvar).
PfAddLoadToBus ==
    /\ path = "functions" /\ pc = "start"
    /\ \E b \in CandidateIdsPypower :
         LET r == add_load_to_bus(buses, b, new_load_mw, new_load_mvar) IN
         /\ base_case' = [PfNothing EXCEPT
                             !.op = "add_load_to_bus", !.bus_id = b, !.error = r.error,
                             !.modified = IF r.error = "none" THEN r.bus ELSE <<>>]
         /\ pc' = IF r.error # "none" THEN "raised" ELSE "loaded"
    /\ UNCHANGED <<inputs, uc, i, test_results, recommendation, solver>>

\* get_branch_loading(results) on a solved PYPOWER case.
PfBranchLoading ==
    /\ path = "functions" /\ pc = "start"
    /\ \E PF \in PfSolvedFlows :
         base_case' = [PfNothing EXCEPT !.op = "get_branch_loading",
                                        !.flows = get_branch_loading(PpBranch, PF)]
    /\ pc' = "solved_pypower"
    /\ UNCHANGED <<inputs, uc, i, test_results, recommendation, solver>>

NextPF ==
    PfBuild \/ PfSolve \/ PfSolveAgain \/ PfCheck \/ PfAddLoad \/ PfAddLoadToBus
    \/ PfBranchLoading
SpecPF == InitPF /\ [][NextPF]_vars

-----------------------------------------------------------------------------
(* AILoadOpt/n_runs.py, AILoadOpt/binary_only.py, AILoadOpt/optimized.py:  *)
(* the exhaustive search over pandapower's AC power flow.  runpp is        *)
(* pandapower's: a call gives the loading of every line, or raises         *)
(* LoadflowNotConverged.                                                   *)

AcLineLoadings == {<<50, 60>>, <<90, 40>>, <<120, 50>>, <<110, 105>>, <<150, 130>>}
AcCandidateLists == {<<1, 2>>, <<1, 2, 3>>}

\* What a call of runpp on the network with the new load can do.
AcOutcomes ==
    {[converged |-> FALSE]} \cup {[converged |-> TRUE, loading |-> l] : l \in AcLineLoadings}

\* loading.max() of a column that is not empty.
RECURSIVE ColumnMax(_)
ColumnMax(loading) ==
    IF Len(loading) = 1 THEN loading[1]
    ELSE LET m == ColumnMax(Tail(loading)) IN IF loading[1] >= m THEN loading[1] ELSE m

\* The rows of res_line with loading_percent > 100.
Overloaded(loading) == SelectSeq(loading, LAMBDA l : l > 100)

\* results[bus] of test_load_addition (n_runs.py).
TestLoadAdditionEntry(outcome) ==
    IF outcome.converged
    THEN [converged |-> TRUE,
          violations |-> Overloaded(outcome.loading),
          max_loading |-> RInt(ColumnMax(outcome.loading)),
          margin_to_limit |-> RInt(100 - ColumnMax(outcome.loading))]
    ELSE [converged |-> FALSE, violations |-> <<>>, max_loading |-> RInf,
          margin_to_limit |-> [n |-> -1, d |-> 0]]

\* What evaluate_placement returns, as optimize_binary stores it.
evaluate_placement(outcome) ==
    IF outcome.converged
    THEN [converged |-> TRUE,
          objective |-> RInt(ColumnMax(outcome.loading)),
          max_loading |-> RInt(ColumnMax(outcome.loading)),
          violations |-> RInt(Len(Overloaded(outcome.loading)))]
    ELSE [converged |-> FALSE, objective |-> RInf, max_loading |-> RInf,
          violations |-> RInf]

\* The order of Python on the key tuples (a, b).
KeyBelow(x, y) == RLt(x[1], y[1]) \/ (x[1] = y[1] /\ RLt(x[2], y[2]))

\* min(items, key=...), keys[k] the key of items[k]: the first of the items
\* whose key no key is below.
FirstLeast(items, keys) ==
    items[CHOOSE k \in DOMAIN items :
             /\ \A m \in DOMAIN items : ~KeyBelow(keys[m], keys[k])
             /\ \A m \in 1..(k - 1) : KeyBelow(keys[k], keys[m])]

\* max(items, key=margin_to_limit), as the least of the negated margins.
HighestMargin(items) ==
    FirstLeast(items, [k \in DOMAIN items |->
                          <<RSub(RInt(0), items[k].res.margin_to_limit), RInt(0)>>])

\* The key (len(violations), -margin_to_limit).
FewerViolations(items) ==
    FirstLeast(items, [k \in DOMAIN items |->
                          <<RInt(Len(items[k].res.violations)),
                            RSub(RInt(0), items[k].res.margin_to_limit)>>])

\* The key (violations, max_loading).
LeastViolations(items) ==
    FirstLeast(items, [k \in DOMAIN items |->
                          <<items[k].res.violations, items[k].res.max_loading>>])

\* min(no_violations, key=max_loading).
LowestLoading(items) ==
    FirstLeast(items, [k \in DOMAIN items |-> <<items[k].res.max_loading, RInt(0)>>])

\* find_best_bus (n_runs.py): None, or the bus it returns.
find_best_bus(results) ==
    LET valid_results == SelectSeq(results, LAMBDA r : r.res.converged)
        no_violations == SelectSeq(valid_results, LAMBDA r : r.res.violations = <<>>)
    IN  IF valid_results = <<>> THEN NoBus
        ELSE IF no_violations # <<>> THEN Bus(HighestMargin(no_violations).bus_id)
        ELSE Bus(FewerViolations(valid_results).bus_id)

\* optimize_binary, after its loop: None, or the bus of best_result.
optimize_binary(results) ==
    LET valid_results == SelectSeq(results, LAMBDA r : r.res.converged)
        no_violations == SelectSeq(valid_results, LAMBDA r : r.res.violations = RInt(0))
    IN  IF valid_results = <<>> THEN NoBus
        ELSE IF no_violations # <<>> THEN Bus(LowestLoading(no_violations).bus_id)
        ELSE Bus(LeastViolations(valid_results).bus_id)

InitAC ==
    /\ path \in {"n_runs", "optimize_binary"}
    /\ pc = "loop"
    /\ buses = <<>>
    /\ branches = <<>>
    /\ generators = <<>>
    /\ new_load_mw = 0
    /\ new_load_mvar = 0
    /\ test_buses \in AcCandidateLists
    /\ i = 1
    /\ base_case = NoBase
    /\ test_results = <<>>
    /\ recommendation = NoRecommendation
    /\ solver = {}
    /\ uc = NoUc
    /\ tolerance = RInt(DEFAULT_TOLERANCE)

\* One pass of the loop of test_load_addition.
AcTestLoadAddition ==
    /\ path = "n_runs" /\ pc = "loop" /\ i <= Len(test_buses)
    /\ \E o \in AcOutcomes :
         test_results' = DictPut(test_results, test_buses[i], TestLoadAdditionEntry(o))
    /\ i' = i + 1
    /\ UNCHANGED <<inputs, uc, pc, base_case, recommendation, solver>>

\* find_best_bus(results).
AcFindBestBus ==
    /\ path = "n_runs" /\ pc = "loop" /\ i > Len(test_buses)
    /\ recommendation' = [NoRecommendation EXCEPT
                             !.recommendation = find_best_bus(test_results)]
    /\ pc' = "returned"
    /\ UNCHANGED <<inputs, uc, i, base_case, test_results, solver>>

\* One pass of the loop of optimize_binary.
AcEvaluatePlacement ==
    /\ path = "optimize_binary" /\ pc = "loop" /\ i <= Len(test_buses)
    /\ \E o \in AcOutcomes :
         test_results' = Append(test_results,
                                [bus_id |-> test_buses[i], res |-> evaluate_placement(o)])
    /\ i' = i + 1
    /\ UNCHANGED <<inputs, uc, pc, base_case, recommendation, solver>>

\* optimize_binary, after its loop.
AcOptimizeBinary ==
    /\ path = "optimize_binary" /\ pc = "loop" /\ i > Len(test_buses)
    /\ recommendation' = [NoRecommendation EXCEPT
                             !.recommendation = optimize_binary(test_results)]
    /\ pc' = "returned"
    /\ UNCHANGED <<inputs, uc, i, base_case, test_results, solver>>

NextAC == AcTestLoadAddition \/ AcFindBestBus \/ AcEvaluatePlacement \/ AcOptimizeBinary
SpecAC == InitAC /\ [][NextAC]_vars

-----------------------------------------------------------------------------
(* The claims.                                                             *)

Ranked == recommendation.ranked_buses
Recommended == recommendation.recommendation
DcRanked == path = "dc" /\ pc \in {"recommended", "printed"}
PpRanked == path = "pypower" /\ pc \in {"recommended", "printed", "print_raised"}

\* A candidate result of the DC path with a line violation or a generator-
\* capacity violation.
HasViolation(res) == Len(res.violations) > 0 \/ res.gen_capacity_exceeded
EntryViolates(e) == e.has_violations \/ e.has_gen_capacity_issues
CleanIds == {test_results[k].bus_id : k \in {h \in DOMAIN test_results :
                                                ~HasViolation(test_results[h].res)}}
RankOf(b) == CHOOSE k \in DOMAIN Ranked : Ranked[k].bus_id = b

\* C1: in the DC path, when every candidate has a line violation or a
\* generator-capacity violation, the recommendation names no bus.
C1_NoBusWhenAllViolate ==
    (DcRanked /\ \A k \in DOMAIN test_results : HasViolation(test_results[k].res))
        => Recommended.kind = "none"

\* C2: when some candidate is clean, the recommendation names a clean
\* candidate of minimum score; when none is clean, it names no bus.
C2_RecommendsBestClean ==
    DcRanked =>
        IF CleanIds # {}
        THEN /\ Recommended.kind = "bus"
             /\ Recommended.bus \in CleanIds
             /\ \A b \in CleanIds :
                    ~RLt(Ranked[RankOf(b)].score, Ranked[RankOf(Recommended.bus)].score)
        ELSE Recommended.kind = "none"

\* C3: in the ranking, every candidate without violations comes before every
\* candidate with a violation.
C3_CleanBeforeViolating ==
    DcRanked =>
        \A a, b \in DOMAIN Ranked :
            (~EntryViolates(Ranked[a]) /\ EntryViolates(Ranked[b])) => a < b

\* The largest |change| over the branches of a candidate.
LargestMagnitude(res) ==
    RMax([k \in 1..Len(res.loading_changes) |-> RAbs(res.loading_changes[k].change)])

\* C4: the score of a candidate without violations is its maximum new
\* loading plus twice the largest magnitude of a per-branch loading change,
\* and max_loading_change is a change of that magnitude.
C4_CleanScore ==
    DcRanked =>
        \A k \in DOMAIN Ranked :
            ~EntryViolates(Ranked[k]) =>
                LET res == DictGet(test_results, Ranked[k].bus_id) IN
                /\ Ranked[k].score =
                       RAdd(RMax(NewLoadings(res.loading_changes)),
                            RMul(LargestMagnitude(res), RInt(2)))
                /\ RAbs(res.max_loading_change) = LargestMagnitude(res)

\* C5: candidates of equal score are ranked by ascending bus id.
C5_TiesByBusId ==
    DcRanked =>
        \A a, b \in DOMAIN Ranked :
            (a < b /\ Ranked[a].score = Ranked[b].score)
                => Ranked[a].bus_id < Ranked[b].bus_id

\* C6: in the ranking of the PYPOWER path, a non-convergent candidate has
\* score +inf, is infeasible, comes after every convergent candidate and is
\* not the recommended bus; the ranking has one entry per candidate.
C6_NonConvergentLast ==
    PpRanked =>
        /\ {Ranked[k].bus_id : k \in DOMAIN Ranked} = DictKeys(test_results)
        /\ Len(Ranked) = Len(test_results)
        /\ \A k \in DOMAIN Ranked :
              ~DictGet(test_results, Ranked[k].bus_id).converged =>
                  /\ Ranked[k].score = RInf
                  /\ ~Ranked[k].feasible
                  /\ \A j \in DOMAIN Ranked :
                        DictGet(test_results, Ranked[j].bus_id).converged => j < k
                  /\ ~(Recommended.kind = "bus" /\ Recommended.bus = Ranked[k].bus_id)

\* A ranking in which a non-convergent candidate was evaluated before a
\* convergent one, and a bus is recommended.
C6_Witness ==
    /\ PpRanked
    /\ Len(test_results) >= 2
    /\ ~test_results[1].res.converged
    /\ \E k \in DOMAIN test_results : test_results[k].res.converged
    /\ Recommended.kind = "bus"

\* What the power flow answered for candidate b's modified case.
AnswerFor(b) ==
    LET modified == add_load_to_bus(buses, b, new_load_mw, new_load_mvar)
    IN  (CHOOSE a \in solver : a.input = modified.bus).outcome

C8_RankingNeverRaises == pc \notin {"recommend_raised", "print_raised"}

\* The sum of Pmax over the in-service generators.
RECURSIVE InServicePmax(_, _)
InServicePmax(gens, k) ==
    IF k > Len(gens) THEN 0
    ELSE (IF gens[k].status = 1 THEN gens[k].Pmax ELSE 0) + InServicePmax(gens, k + 1)

\* C9: gen_capacity_exceeded of a candidate is true exactly when the total
\* load with the new load added exceeds the sum of Pmax over the in-service
\* generators.
C9_GenCapacityFlag ==
    path = "dc" =>
        \A k \in DOMAIN test_results :
            test_results[k].res.gen_capacity_exceeded =
                (SumPd(add_new_load(buses, test_results[k].bus_id, new_load_mw,
                                    new_load_mvar), 1)
                    > InServicePmax(generators, 1))

\* C10: check_line_violations returns no record whose rating is <= 0.
C10_NoUnratedViolation ==
    (path = "violations" /\ pc = "checked") =>
        \A k \in DOMAIN base_case.violations : base_case.violations[k].limit_mw > 0

-----------------------------------------------------------------------------
(* The claims about the functions called on their own.                     *)

PfAfter(op) == path = "functions" /\ base_case.op = op /\ base_case.error = "none"
FlowKeys == {"from_bus", "to_bus", "flow_mw", "limit_mw", "loading_percent"}
Exceeding == {k \in DOMAIN base_case.flows :
                 RGt(base_case.flows[k].loading_percent, tolerance)}

\* C11: check_line_violations returns exactly the records whose loading is
\* strictly greater than the threshold, in input order, each with the
\* endpoints, flow, limit and loading of the input record; a record loaded
\* exactly to the threshold is not returned; the input list is unchanged.
C11_ViolationsAreTheExceeding ==
    PfAfter("check_line_violations") =>
        LET flows == base_case.flows
            violations == base_case.violations
        IN  /\ Len(violations) = Cardinality(Exceeding)
            /\ \E f \in [DOMAIN violations -> Exceeding] :
                  /\ \A a, b \in DOMAIN violations : a < b => f[a] < f[b]
                  /\ \A a \in DOMAIN violations :
                        /\ DOMAIN violations[a] = FlowKeys
                        /\ violations[a] = flows[f[a]]
            /\ \A a \in DOMAIN violations :
                  violations[a].loading_percent # tolerance
            /\ flows = run_dc_power_flow(buses, branches, generators, base_mva).flows

\* A check in which one record is loaded exactly to the threshold, one above
\* it and one below it.
C11_Witness ==
    /\ PfAfter("check_line_violations")
    /\ \E k \in DOMAIN base_case.flows : base_case.flows[k].loading_percent = tolerance
    /\ \E k \in DOMAIN base_case.flows :
          RLt(base_case.flows[k].loading_percent, tolerance)
    /\ base_case.violations # <<>>

\* A state that holds flow records: of run_dc_power_flow or get_branch_loading.
PfHasFlows ==
    /\ path = "functions" /\ base_case.error = "none"
    /\ base_case.op \in {"run_dc_power_flow", "check_line_violations", "get_branch_loading"}

\* C12: every flow record has loading_percent = |flow_mw| / rating * 100 when
\* the rating is positive and 0 when it is not; the loading is never negative.
C12_LoadingFormula ==
    PfHasFlows =>
        \A k \in DOMAIN base_case.flows :
            LET rec == base_case.flows[k] IN
            /\ rec.loading_percent =
                   IF rec.limit_mw > 0
                   THEN RMul(RDiv(RAbs(rec.flow_mw), RInt(rec.limit_mw)), RInt(100))
                   ELSE RInt(0)
            /\ ~RLt(rec.loading_percent, RInt(0))

\* A power flow with a negative flow on a rated branch and a non-zero flow on
\* a branch whose rating is not positive.
C12_Witness ==
    /\ PfAfter("run_dc_power_flow")
    /\ \E k \in DOMAIN base_case.flows :
          /\ RLt(base_case.flows[k].flow_mw, RInt(0))
          /\ base_case.flows[k].limit_mw > 0
          /\ RGt(base_case.flows[k].loading_percent, RInt(0))
    /\ \E k \in DOMAIN base_case.flows :
          /\ base_case.flows[k].limit_mw <= 0
          /\ base_case.flows[k].flow_mw # RInt(0)
          /\ ~RIsNan(base_case.flows[k].flow_mw)

\* The sum of the first k elements of a list of numbers.
RECURSIVE RSum(_, _)
RSum(row, k) == IF k = 0 THEN RInt(0) ELSE RAdd(RSum(row, k - 1), row[k])

\* The branches that are in service and have a reactance.
InService(brs) == {k \in DOMAIN brs : brs[k].status = 1 /\ brs[k].x # 0}

\* C13: the matrix B returned by build_b_matrix is symmetric and each of its
\* rows sums to zero, parallel branches and a branch from a bus to itself
\* included.
C13_SymmetricZeroRowSums ==
    PfAfter("build_b_matrix") =>
        LET B == base_case.B IN
        /\ Len(B) = Len(buses)
        /\ \A r \in DOMAIN B :
              /\ Len(B[r]) = Len(buses)
              /\ RSum(B[r], Len(B[r])) = RInt(0)
              /\ \A c \in DOMAIN B : B[r][c] = B[c][r]

\* A matrix built from a list with two in-service branches between the same
\* two buses and a branch from a bus to itself.
C13_Witness ==
    /\ PfAfter("build_b_matrix")
    /\ \E r, c \in DOMAIN base_case.B : r # c /\ base_case.B[r][c] # RInt(0)
    /\ \E a, b \in InService(branches) :
          /\ a # b
          /\ {branches[a].from, branches[a].to} = {branches[b].from, branches[b].to}
    /\ \E a \in InService(branches) : branches[a].from = branches[a].to

BusIds == {buses[k].id : k \in DOMAIN buses}
PositionOf(id) == CHOOSE k \in DOMAIN buses : buses[k].id = id

\* The in-service branches with a reactance that name a bus not in the list.
Dangling == {k \in InService(branches) :
                branches[k].from \notin BusIds \/ branches[k].to \notin BusIds}

\* What the first k branches put at B[r][c]: for r # c minus the susceptance
\* of each in-service branch between the two buses, for r = c the susceptance
\* of each in-service branch with exactly one end at the bus.
RECURSIVE Susceptance(_, _, _)
Susceptance(k, r, c) ==
    IF k = 0 THEN RInt(0)
    ELSE LET br == branches[k]
             ends == {PositionOf(br.from), PositionOf(br.to)}
             b == RDiv(RInt(1), RInt(br.x))
         IN  RAdd(Susceptance(k - 1, r, c),
                  IF k \notin InService(branches) \/ Cardinality(ends) = 1 THEN RInt(0)
                  ELSE IF r = c /\ r \in ends THEN b
                  ELSE IF r # c /\ ends = {r, c} THEN RSub(RInt(0), b)
                  ELSE RInt(0))

\* The endpoints of the in-service branches with a reactance, in list order.
RECURSIVE InServiceEnds(_)
InServiceEnds(k) ==
    IF k = 0 THEN <<>>
    ELSE InServiceEnds(k - 1)
         \o (IF k \in InService(branches)
             THEN <<[from_bus |-> branches[k].from, to_bus |-> branches[k].to]>>
             ELSE <<>>)

\* C14: a branch out of service or of zero reactance adds nothing to B, gives
\* no flow record and raises no error; every other branch adds 1/x to B and
\* gives one flow record, and the records are in branch-list order.
C14_SkippedBranches ==
    /\ (path = "functions" /\ base_case.op \in {"build_b_matrix", "run_dc_power_flow"}
            /\ Dangling = {})
          => base_case.error \in {"none", "ValueError"}
    /\ PfAfter("build_b_matrix") =>
          \A r, c \in DOMAIN buses : base_case.B[r][c] = Susceptance(Len(branches), r, c)
    /\ PfAfter("run_dc_power_flow") =>
          [k \in DOMAIN base_case.flows |->
              [from_bus |-> base_case.flows[k].from_bus,
               to_bus |-> base_case.flows[k].to_bus]] = InServiceEnds(Len(branches))

\* A power flow of a list that starts with a skipped branch, out of service
\* and to a bus that is not in the list, followed by two branches or more.
C14_Witness ==
    /\ PfAfter("run_dc_power_flow")
    /\ 1 \notin InService(branches)
    /\ branches[1].to \notin BusIds
    /\ Len(base_case.flows) = Len(branches) - 1
    /\ Len(base_case.flows) >= 2

SlackPositions == {k \in DOMAIN buses : buses[k].type = 3}

\* The bus ids joined to the bus ids of S by an in-service branch with a
\* reactance, in at most k steps.
RECURSIVE Reach(_, _)
Reach(S, k) ==
    IF k = 0 THEN S
    ELSE LET R == Reach(S, k - 1)
         IN  R \cup {branches[b].to : b \in {a \in InService(branches) :
                                                branches[a].from \in R}}
               \cup {branches[b].from : b \in {a \in InService(branches) :
                                                  branches[a].to \in R}}

\* Every bus is joined to a slack bus.
Connected ==
    /\ SlackPositions # {}
    /\ Reach({buses[k].id : k \in SlackPositions}, Len(buses)) = BusIds

RECURSIVE NetFlowOut(_, _)
NetFlowOut(b, k) ==
    IF k = 0 THEN RInt(0)
    ELSE LET rec == base_case.flows[k]
             out == IF rec.from_bus = b THEN rec.flow_mw ELSE RInt(0)
             in == IF rec.to_bus = b THEN rec.flow_mw ELSE RInt(0)
         IN  RAdd(NetFlowOut(b, k - 1), RSub(out, in))

\* The output of the in-service generators at bus b, over the first k generators.
RECURSIVE GenerationAt(_, _)
GenerationAt(b, k) ==
    IF k = 0 THEN 0
    ELSE GenerationAt(b, k - 1)
         + (IF generators[k].status = 1 /\ generators[k].bus = b
            THEN generators[k].Pg ELSE 0)

\* Sum over the first k buses of f[k].
RECURSIVE SumOver(_, _)
SumOver(f, k) == IF k = 0 THEN 0 ELSE SumOver(f, k - 1) + f[k]

NonSlackGeneration ==
    SumOver([k \in DOMAIN buses |->
                IF k \in SlackPositions THEN 0
                ELSE GenerationAt(buses[k].id, Len(generators))], Len(buses))
TotalLoad == SumOver([k \in DOMAIN buses |-> buses[k].Pd], Len(buses))
NonSlackLoad ==
    SumOver([k \in DOMAIN buses |-> IF k \in SlackPositions THEN 0 ELSE buses[k].Pd],
            Len(buses))

BalancedAtNonSlackBuses ==
    \A k \in DOMAIN buses \ SlackPositions :
        NetFlowOut(buses[k].id, Len(base_case.flows))
            = RInt(GenerationAt(buses[k].id, Len(generators)) - buses[k].Pd)

C17_NoSlackStopsTheRun ==
    (path = "dc" /\ SlackPositions = {} /\ pc # "start") =>
        /\ pc = "base_raised"
        /\ base_case = NoBase
        /\ test_results = <<>>
        /\ recommendation = NoRecommendation
        /\ run_dc_power_flow(buses, branches, generators, base_mva)
               = [NoResult EXCEPT !.error = "ValueError"]

\* The run of a list of candidates on a network without a slack bus has
\* stopped at the base case.
C17_Witness ==
    /\ path = "dc" /\ SlackPositions = {} /\ pc = "base_raised"
    /\ Len(test_buses) >= 2

\* B without the row and the column of the first slack bus.
ReducedB ==
    LET B == build_b_matrix(buses, branches).B
        slack_idx == CHOOSE k \in SlackPositions : \A m \in SlackPositions : k <= m
        mask == Masked(Len(buses), 1, slack_idx)
    IN  [r \in 1..Len(mask) |-> [c \in 1..Len(mask) |-> B[mask[r]][mask[c]]]]

Singular == SlackPositions # {} /\ Dangling = {} /\ Det(ReducedB).n = 0

\* C18: when the reduced matrix is singular run_dc_power_flow fails with an
\* error and returns neither angles nor flow records.
C18_SingularRaises ==
    (path = "functions" /\ base_case.op = "run_dc_power_flow" /\ Singular) =>
        /\ base_case.error # "none"
        /\ base_case.theta = <<>>
        /\ base_case.flows = <<>>

\* The branches and the generators that name a bus that is not in the list.
UnknownBranchReferences ==
    {k \in DOMAIN branches : branches[k].from \notin BusIds \/ branches[k].to \notin BusIds}
UnknownGeneratorReferences == {k \in DOMAIN generators : generators[k].bus \notin BusIds}

\* C19: a branch or a generator that names a bus that is not in the bus list
\* makes the power flow fail with an error, and no result is returned.
C19_UnknownReferenceRaises ==
    (path = "functions" /\ base_case.op = "run_dc_power_flow"
         /\ (UnknownBranchReferences # {} \/ UnknownGeneratorReferences # {})) =>
        /\ base_case.error # "none"
        /\ base_case.theta = <<>>
        /\ base_case.flows = <<>>

\* The bus list with Pd and Qd of position k raised by the new load.
WithLoadAt(k) ==
    [p \in DOMAIN buses |->
        IF p = k
        THEN [id |-> buses[p].id, type |-> buses[p].type,
              Pd |-> buses[p].Pd + new_load_mw, Qd |-> buses[p].Qd + new_load_mvar]
        ELSE buses[p]]

\* C20: add_new_load (and add_load_to_bus) return the bus data with the new
\* load added to Pd and Qd of the target bus, every other bus and field as in
\* the input; the total load grows by new_load_mw.
C20_LoadIsAdded ==
    /\ (PfAfter("add_new_load") /\ base_case.bus_id \in BusIds) =>
          /\ base_case.modified = WithLoadAt(PositionOf(base_case.bus_id))
          /\ SumPd(base_case.modified, 1) = TotalLoad + new_load_mw
    /\ (PfAfter("add_load_to_bus") /\ base_case.bus_id \in DOMAIN buses) =>
          /\ base_case.modified = WithLoadAt(base_case.bus_id)
          /\ SumPd(base_case.modified, 1) = TotalLoad + new_load_mw

\* A load added by add_new_load to a bus that had an active and a reactive
\* load of its own.
C20_Witness ==
    /\ PfAfter("add_new_load")
    /\ base_case.bus_id \in BusIds
    /\ buses[PositionOf(base_case.bus_id)].Pd > 0
    /\ buses[PositionOf(base_case.bus_id)].Qd > 0
    /\ new_load_mw > 0 /\ new_load_mvar > 0

\* The candidates whose evaluation is over.
Evaluated == {test_buses[k] : k \in 1..(i - 1)}

\* C21: no step of the placement search changes the original grid model: the
\* bus data (so the Pd and Qd of every bus), the branches and the generators
\* keep the values they had when the search started.
C21_OriginalUnchanged ==
    [][buses' = buses /\ branches' = branches /\ generators' = generators]_vars

\* Two candidates evaluated, both buses of the network, with a load that is
\* not zero.
C21_Witness ==
    /\ path = "dc" /\ pc = "loop" /\ i = 3
    /\ new_load_mw # 0
    /\ Evaluated \subseteq BusIds
    /\ Len(test_results) = 2

\* The flow records of the power flow run for candidate b.
CandidateFlows(b) ==
    run_dc_power_flow(add_new_load(buses, b, new_load_mw, new_load_mvar),
                      branches, generators, base_mva).flows

\* C22: with an incremental load of 0 MW the flow records of every candidate
\* are the flow records of the base case, and every loading change recorded
\* for it is 0.
C22_ZeroLoadZeroChange ==
    (path = "dc" /\ new_load_mw = 0) =>
        \A k \in DOMAIN test_results :
            /\ CandidateFlows(test_results[k].bus_id) = base_case.flows
            /\ Len(test_results[k].res.loading_changes) = Len(base_case.flows)
            /\ \A c \in DOMAIN test_results[k].res.loading_changes :
                   /\ test_results[k].res.loading_changes[c].change = RInt(0)
                   /\ test_results[k].res.loading_changes[c].new_loading =
                          base_case.flows[c].loading_percent

\* Two candidates evaluated with a load of 0 MW on a network with a loaded
\* branch.
C22_Witness ==
    /\ path = "dc" /\ pc = "tested" /\ new_load_mw = 0
    /\ Len(test_results) = 2
    /\ \E c \in DOMAIN base_case.flows :
           RGt(base_case.flows[c].loading_percent, RInt(0))

AloneResult(b) ==
    CandidateResult(buses, branches, generators, base_case.flows, b,
                    new_load_mw, new_load_mvar).res

\* C24: the result recorded for a candidate is the one it gets when it is the
\* only candidate, whatever was evaluated before it: its load is added to the
\* original bus data.
C24_CandidatesIndependent ==
    path = "dc" =>
        \A k \in DOMAIN test_results :
            test_results[k].res = AloneResult(test_results[k].bus_id)

\* Two different buses evaluated one after the other, with a load that is not
\* zero and results that differ.
C24_Witness ==
    /\ path = "dc" /\ pc = "tested"
    /\ new_load_mw # 0
    /\ Len(test_results) = 2
    /\ DictKeys(test_results) \subseteq BusIds
    /\ test_results[1].res # test_results[2].res

\* The converged candidates of the AC search, and those with a line above its
\* limit.
AcConverged == {k \in DOMAIN test_results : test_results[k].res.converged}
AcViolating ==
    {k \in AcConverged : test_results[k].res.violations \notin {<<>>, RInt(0)}}

\* C25: when every converged candidate of the AC search has a line violation,
\* find_best_bus and optimize_binary return no bus.
C25_AcNoBusWhenAllViolate ==
    (path \in {"n_runs", "optimize_binary"} /\ pc = "returned"
         /\ AcConverged # {} /\ AcViolating = AcConverged) =>
        Recommended = NoBus

\* The test results that the loop gives on the inputs alone, for the first k
\* candidates.
RECURSIVE ResultsOfInputs(_)
ResultsOfInputs(k) ==
    IF k = 0 THEN <<>>
    ELSE DictPut(ResultsOfInputs(k - 1), test_buses[k], AloneResult(test_buses[k]))

\* C26: the ranking and the recommendation of main are those that the
\* placement test and the ranking policy give on the grid data, the load and
\* the candidates alone, whether the unit commitment was skipped, completed or
\* failed.
C26_RankingIgnoresUnitCommitment ==
    (path = "dc" /\ pc \in {"recommended", "printed"}) =>
        /\ uc.step2 \in {"skipped", "completed", "failed"}
        /\ test_results = ResultsOfInputs(Len(test_buses))
        /\ recommendation = recommend_load_placement(ResultsOfInputs(Len(test_buses)))

\* A ranking printed after a unit commitment that failed.
C26_Witness ==
    /\ path = "dc" /\ pc = "printed"
    /\ uc.step2 = "failed"
    /\ Len(Ranked) = 2

\* The attempts made so far are the first solvers of the list, in order.
AttemptsInOrder ==
    /\ Len(uc.attempts) <= Len(solver_options(uc.solver_name))
    /\ \A k \in DOMAIN uc.attempts : uc.attempts[k][1] = solver_options(uc.solver_name)[k]

\* The attempts that returned.
Returned == {k \in DOMAIN uc.attempts : uc.attempts[k][2] = "returned"}

\* C30: the solvers are tried in the order CBC, GLPK, CPLEX, GUROBI, SCIP (or
\* the named solver only), the first attempt that returns is the last one, the
\* result is that of the simplified dispatch exactly when no attempt returned,
\* and otherwise it is reported as the result of the solver that returned.
C30_FirstSolverThatReturns ==
    (path = "dc" /\ uc.step2 # "skipped") =>
        /\ AttemptsInOrder
        /\ Returned \subseteq {Len(uc.attempts)}
        /\ pc = "uc_loop" => Returned = {}
        /\ pc \in {"uc_returned", "start"} =>
              /\ Returned = {} => Len(uc.attempts) = Len(solver_options(uc.solver_name))
              /\ uc.uc_results = solve_simplified_dispatch <=> Returned = {}
              /\ Returned # {} =>
                    /\ uc.uc_results.solver = uc.attempts[Len(uc.attempts)][1]
                    /\ uc.uc_results.status = LpStatus(uc.status)

\* The entry of the ranking for the bus that is recommended.
RecommendedEntry == Ranked[RankOf(Recommended.bus)]

\* C27: the bus that recommend_load_placement recommends has a maximum line
\* loading after the placement of at most max_loading_threshold (80 %).
C27_RecommendedWithinThreshold ==
    (DcRanked /\ Recommended.kind = "bus") =>
        ~RGt(RecommendedEntry.max_line_loading, RInt(MAX_LOADING_THRESHOLD))

\* The first bus of type slack in the bus list.
FirstSlack == CHOOSE k \in SlackPositions : \A m \in SlackPositions : k <= m

\* Every bus is joined to the first slack bus.
ConnectedToFirstSlack == Reach({buses[FirstSlack].id}, Len(buses)) = BusIds

\* C28: with several buses of type slack the first one in the bus list is the
\* reference: its angle is 0, and every other bus, the other slack buses
\* included, gets the angle that balances the flows at it, as an ordinary bus
\* does.
C28_FirstSlackIsReference ==
    (PfAfter("run_dc_power_flow") /\ Cardinality(SlackPositions) > 1
         /\ ConnectedToFirstSlack) =>
        /\ base_case.theta[FirstSlack] = RInt(0)
        /\ \A k \in DOMAIN buses \ {FirstSlack} :
              /\ base_case.theta[k].d # 0
              /\ NetFlowOut(buses[k].id, Len(base_case.flows))
                     = RInt(GenerationAt(buses[k].id, Len(generators)) - buses[k].Pd)

\* A power flow with two slack buses, the second of which gets an angle that
\* is not zero.
C28_Witness ==
    /\ PfAfter("run_dc_power_flow")
    /\ Cardinality(SlackPositions) = 2
    /\ ConnectedToFirstSlack
    /\ \E k \in SlackPositions : base_case.theta[k] # RInt(0)

\* The candidates with a result whose id is the id of no bus.
UnknownCandidates == DictKeys(test_results) \ BusIds

\* C29: a candidate whose id matches no bus raises no error: add_new_load
\* returns a copy equal to the bus data, the candidate is recorded with the
\* loadings of the base case on every branch, and it has an entry in the
\* ranking, scored as any other candidate is.
C29_UnknownCandidateIsBaseCase ==
    path = "dc" =>
        /\ (pc = "loop" /\ i <= Len(test_buses) /\ test_buses[i] \notin BusIds) =>
              CandidateResult(buses, branches, generators, base_case.flows,
                              test_buses[i], new_load_mw, new_load_mvar).error = "none"
        /\ \A b \in UnknownCandidates :
              /\ add_new_load(buses, b, new_load_mw, new_load_mvar) = buses
              /\ CandidateFlows(b) = base_case.flows
              /\ \A c \in DOMAIN DictGet(test_results, b).loading_changes :
                    /\ DictGet(test_results, b).loading_changes[c].change = RInt(0)
                    /\ DictGet(test_results, b).loading_changes[c].new_loading
                           = base_case.flows[c].loading_percent
              /\ DcRanked =>
                    \E k \in DOMAIN Ranked :
                        Ranked[k] = Evaluation([bus_id |-> b,
                                                res |-> DictGet(test_results, b)])

\* A ranking of a bus of the network and of a candidate that matches no bus,
\* with a load that is not zero and a loaded branch.
C29_Witness ==
    /\ path = "dc" /\ pc = "printed"
    /\ new_load_mw # 0
    /\ Len(Ranked) = 2
    /\ UnknownCandidates # {}
    /\ DictKeys(test_results) \cap BusIds # {}
    /\ \E c \in DOMAIN base_case.flows : RGt(base_case.flows[c].loading_percent, RInt(0))

=============================================================================
